---- MODULE Spec2Model ----
(***************************************************************************)
(* A model of fancyiter's FancyIter (src/src/fancyiter/_iter.py): a        *)
(* wrapper around an iterable whose chainable methods build lazy iterator  *)
(* objects (map, filter, islice, generators ...) over the wrapped one and  *)
(* whose terminal methods drive them.                                      *)
(*                                                                         *)
(* Python values are boxed as records [t, v]: t is the Python type and v   *)
(* a sequence (the integer of an int, the items of a list or tuple).       *)
(* Python's == on these values is then TLA+ equality.  A bool is the int   *)
(* 1 or 0 (True == 1, isinstance(True, int)).                              *)
(*                                                                         *)
(* Iterator objects live in a heap `objs`; FancyIter instances in `insts`, *)
(* each holding the heap index of its _iterable.  Pull(w, id) is one       *)
(* next() on object id in world w and returns the new world with the item  *)
(* (ok) or StopIteration (~ok).                                            *)
(***************************************************************************)
EXTENDS Integers, Sequences, FiniteSets, TLC

VARIABLES
    src,      \* the list the root iterator was made from
    objs,     \* heap of iterator objects
    log,      \* side effects of inspect actions, in order
    insts,    \* FancyIter instances: [iterable |-> index into objs]
    outs,     \* per instance: the items a consumer got from it so far
    stopped,  \* per instance: the consumer has seen StopIteration from it
    hist      \* the operations so far: each call with what it returned or raised

vars == <<src, objs, log, insts, outs, stopped, hist>>

\* Longest source list.
MaxLen == 3
\* Source elements are None and the ints 0..MaxVal.
MaxVal == 1
\* Most chainable calls in a behaviour of SpecLazy.
MaxCalls == 1
\* Most next() calls in a behaviour of SpecLazy.
MaxPulls == 3

--------------------------------------------------------------------------
(* Python values *)

IntV(i) == [t |-> "int", v |-> <<i>>]
NoneV == [t |-> "none", v |-> <<>>]
StrV == [t |-> "str", v |-> <<>>]
ListV(s) == [t |-> "list", v |-> s]
TupleV(s) == [t |-> "tuple", v |-> s]
BoolV(b) == IF b THEN IntV(1) ELSE IntV(0)

\* a function object
FunctionV == [t |-> "function", v |-> <<>>]

\* an argument the caller leaves out
Omitted == [t |-> "omitted", v |-> <<>>]

IntOf(x) == x.v[1]

\* bool(x)
Truthy(x) ==
    CASE x.t = "int" -> x.v[1] # 0
      [] x.t = "none" -> FALSE
      [] x.t = "str" -> TRUE
      [] OTHER -> Len(x.v) # 0

\* isinstance(x, typing.Iterable)
IsIterable(x) == x.t \in {"list", "tuple"}

Elems == {NoneV} \cup {IntV(i) : i \in 0..MaxVal}

RECURSIVE SeqsUpTo(_, _)
SeqsUpTo(S, n) ==
    IF n = 0 THEN {<<>>}
    ELSE LET shorter == SeqsUpTo(S, n - 1)
         IN shorter \cup {Append(s, x) : s \in {q \in shorter : Len(q) = n - 1}, x \in S}

Sources == SeqsUpTo(Elems, MaxLen)

--------------------------------------------------------------------------
(* Functions passed to the methods: lambdas of the library and of callers *)

Fn(tag, arg) == [tag |-> tag, arg |-> arg]
NoFn == Fn("none", NoneV)

\* f(x) for a function without side effects on the model's values
Apply(f, x) ==
    CASE f.tag = "bool" -> BoolV(Truthy(x))                   \* lambda x: bool(x)
      [] f.tag = "eq" -> BoolV(x = f.arg)                     \* lambda x: x == item
      [] f.tag = "ne" -> BoolV(x # f.arg)                     \* lambda x: x != stop_value
      [] f.tag = "len_eq" -> BoolV(Len(x.v) = IntOf(f.arg))   \* lambda x: len(x) == n
      [] f.tag = "is_not_none" -> BoolV(x.t # "none")         \* lambda x: x is not None
      [] f.tag = "idx_eq" -> BoolV(x.v[1] = f.arg)            \* lambda x: x[0] == n
      [] f.tag = "item_eq" -> BoolV(x.v[2] = f.arg)           \* lambda x: x[1] == item
      [] f.tag = "inspect" -> x                               \* lambda x: (x, func(x))[0]
      [] f.tag = "id" -> x
      [] f.tag = "wrap" -> ListV(<<x>>)                       \* lambda x: [x]
      [] f.tag = "none_if" -> IF x = f.arg THEN NoneV ELSE x  \* lambda x: None if x == k else x
      [] OTHER -> NoneV

\* the side effect of f(x): inspect's wrapper calls the caller's action
Effect(f, x, lg) == IF f.tag = "inspect" THEN Append(lg, <<f.arg, x>>) ELSE lg

--------------------------------------------------------------------------
(* Iterator objects.  Fields: kind (the Python type), up (the heap index  *)
(* of the iterator it pulls from, 0 for none), f (its function), n, m     *)
(* (integer parameters), val, arg (value parameters), a, b (counters),    *)
(* buf (buffered items), pc (where a generator is suspended).             *)

Obj(kind, up) ==
    [kind |-> kind, up |-> up, f |-> NoFn, n |-> 0, m |-> 0, val |-> NoneV,
     arg |-> NoneV, a |-> 0, b |-> 0, buf |-> <<>>, pc |-> "start"]

Yield(w, x) == [w |-> w, ok |-> TRUE, val |-> x]
Stop(w) == [w |-> w, ok |-> FALSE, val |-> NoneV]

\* world w with object id replaced by o
Put(w, id, o) == [w EXCEPT !.objs[id] = o]

RECURSIVE Pull(_, _)

\* iter(list).__next__: the items of the list, once
ListIterNext(w, id) ==
    LET o == w.objs[id] IN
    IF o.a < Len(o.buf)
    THEN Yield(Put(w, id, [o EXCEPT !.a = o.a + 1]), o.buf[o.a + 1])
    ELSE Stop(w)

\* map(func, it).__next__
MapNext(w, id) ==
    LET o == w.objs[id]
        r == Pull(w, o.up)
    IN IF ~r.ok THEN Stop(r.w)
       ELSE Yield([r.w EXCEPT !.log = Effect(o.f, r.val, r.w.log)], Apply(o.f, r.val))

\* a filter that keeps the items whose func(item) is falsy
RECURSIVE FilterNextNegated(_, _)
FilterNextNegated(w, id) ==
    LET o == w.objs[id]
        r == Pull(w, o.up)
    IN IF ~r.ok THEN Stop(r.w)
       ELSE IF ~Truthy(Apply(o.f, r.val)) THEN Yield(r.w, r.val)
       ELSE FilterNextNegated(r.w, id)

\* filter(func, it).__next__: the next item whose func(item) is truthy
RECURSIVE FilterNext(_, _)
FilterNext(w, id) ==
    LET o == w.objs[id]
        r == Pull(w, o.up)
    IN IF ~r.ok THEN Stop(r.w)
       ELSE IF Truthy(Apply(o.f, r.val)) THEN Yield(r.w, r.val)
       ELSE FilterNext(r.w, id)

\* enumerate(it).__next__
EnumerateNext(w, id) ==
    LET o == w.objs[id]
        r == Pull(w, o.up)
    IN IF ~r.ok THEN Stop(r.w)
       ELSE Yield(Put(r.w, id, [o EXCEPT !.a = o.a + 1]), TupleV(<<IntV(o.a), r.val>>))

\* itertools.islice(it, start, stop, step).__next__ (CPython's islice_next):
\* a is cnt, b is next, n is stop (-1 for None), m is step, pc "dead" once
\* the underlying iterator was released.
RECURSIVE IsliceSkip(_, _)
IsliceSkip(w, id) ==
    LET o == w.objs[id] IN
    IF o.a >= o.b THEN Yield(w, NoneV)
    ELSE LET r == Pull(w, o.up)
         IN IF ~r.ok THEN Stop(r.w)
            ELSE IsliceSkip(Put(r.w, id, [o EXCEPT !.a = o.a + 1]), id)

\* an islice(it, 0, stop) that pulls the next item before it tests stop
IsliceNextGreedy(w, id) ==
    LET o == w.objs[id]
        dead(w1) == Stop(Put(w1, id, [w1.objs[id] EXCEPT !.pc = "dead"]))
    IN IF o.pc = "dead" THEN Stop(w)
       ELSE LET r == Pull(w, o.up)
            IN IF ~r.ok \/ (o.n # -1 /\ o.a >= o.n) THEN dead(r.w)
               ELSE Yield(Put(r.w, id, [o EXCEPT !.a = o.a + 1, !.b = o.a + 1]), r.val)

IsliceNext(w, id) ==
    LET o == w.objs[id] IN
    IF o.pc = "dead" THEN Stop(w)
    ELSE LET s == IsliceSkip(w, id)
             o1 == s.w.objs[id]
             dead(w1) == Stop(Put(w1, id, [w1.objs[id] EXCEPT !.pc = "dead"]))
         IN IF ~s.ok THEN dead(s.w)
            ELSE IF o1.n # -1 /\ o1.a >= o1.n THEN dead(s.w)
            ELSE LET r == Pull(s.w, o1.up)
                     nxt == o1.b + o1.m
                 IN IF ~r.ok THEN dead(r.w)
                    ELSE Yield(Put(r.w, id,
                                   [o1 EXCEPT !.a = o1.a + 1,
                                              !.b = IF o1.n # -1 /\ nxt > o1.n
                                                    THEN o1.n ELSE nxt]),
                               r.val)

\* a takewhile that leaves the item that fails func in the iterator
TakeWhileNextPeeks(w, id) ==
    LET o == w.objs[id] IN
    IF o.pc = "dead" THEN Stop(w)
    ELSE LET r == Pull(w, o.up)
         IN IF ~r.ok THEN Stop(r.w)
            ELSE IF Truthy(Apply(o.f, r.val)) THEN Yield(r.w, r.val)
            ELSE Stop(Put(w, id, [o EXCEPT !.pc = "dead"]))

\* itertools.takewhile(func, it).__next__
TakeWhileNext(w, id) ==
    LET o == w.objs[id] IN
    IF o.pc = "dead" THEN Stop(w)
    ELSE LET r == Pull(w, o.up)
         IN IF ~r.ok THEN Stop(r.w)
            ELSE IF Truthy(Apply(o.f, r.val)) THEN Yield(r.w, r.val)
            ELSE Stop(Put(r.w, id, [o EXCEPT !.pc = "dead"]))

\* itertools.dropwhile(func, it).__next__
RECURSIVE DropWhileNext(_, _)
DropWhileNext(w, id) ==
    LET o == w.objs[id]
        r == Pull(w, o.up)
    IN IF ~r.ok THEN Stop(r.w)
       ELSE IF o.pc = "started" THEN Yield(r.w, r.val)
       ELSE IF ~Truthy(Apply(o.f, r.val))
            THEN Yield(Put(r.w, id, [o EXCEPT !.pc = "started"]), r.val)
       ELSE DropWhileNext(r.w, id)

\* itertools.chain(it, *iterables).__next__ with iterables the lists in buf
\* (a list of lists); a is the index of the list being read, b the position
\* in it, pc "start" while the first iterator is read.
RECURSIVE ChainRest(_, _)
ChainRest(w, id) ==
    LET o == w.objs[id] IN
    IF o.a > Len(o.buf) THEN Stop(w)
    ELSE IF o.b < Len(o.buf[o.a])
         THEN Yield(Put(w, id, [o EXCEPT !.b = o.b + 1]), o.buf[o.a][o.b + 1])
    ELSE ChainRest(Put(w, id, [o EXCEPT !.a = o.a + 1, !.b = 0]), id)

ChainNext(w, id) ==
    LET o == w.objs[id] IN
    IF o.pc = "start"
    THEN LET r == Pull(w, o.up)
         IN IF r.ok THEN r
            ELSE ChainRest(Put(r.w, id, [o EXCEPT !.pc = "rest", !.a = 1, !.b = 0]), id)
    ELSE ChainRest(w, id)

\* zip(it, *iterables).__next__ with iterables the lists in buf; a is the
\* number of tuples made.  The iterators are pulled in order and the first
\* that is exhausted ends the zip: what was pulled before it is dropped.
ZipNext(w, id) ==
    LET o == w.objs[id]
        r == Pull(w, o.up)
    IN IF ~r.ok THEN Stop(r.w)
       ELSE IF \E k \in 1..Len(o.buf) : Len(o.buf[k]) <= o.a THEN Stop(r.w)
       ELSE Yield(Put(r.w, id, [o EXCEPT !.a = o.a + 1]),
                  TupleV(<<r.val>> \o [k \in 1..Len(o.buf) |-> o.buf[k][o.a + 1]]))

\* itertools.zip_longest(it, *iterables).__next__ with iterables the lists
\* in buf; a is the number of tuples made, val the fillvalue (None, the
\* default: no fillvalue is passed), pc "start" while the first iterator
\* is active.  An exhausted iterator is not pulled again; the tuples end
\* when no iterator is active.
ZipLongestNext(w, id) ==
    LET o == w.objs[id]
        r == IF o.pc = "start" THEN Pull(w, o.up) ELSE Stop(w)
        active == {k \in 1..Len(o.buf) : Len(o.buf[k]) > o.a}
    IN IF o.pc = "done" THEN Stop(w)
       ELSE IF ~r.ok /\ active = {} THEN Stop(Put(r.w, id, [o EXCEPT !.pc = "done"]))
       ELSE Yield(Put(r.w, id, [o EXCEPT !.a = o.a + 1,
                                         !.pc = IF r.ok THEN "start" ELSE "first_done"]),
                  TupleV(<<IF r.ok THEN r.val ELSE o.val>>
                         \o [k \in 1..Len(o.buf) |->
                                IF k \in active THEN o.buf[k][o.a + 1] ELSE o.val]))

\* itertools.cycle(it).__next__: buf is saved, a the index in it, pc
\* "start" while the iterator is still read
CycleNext(w, id) ==
    LET o == w.objs[id]
        replay(w1, o1) ==
            IF Len(o1.buf) = 0 THEN Stop(Put(w1, id, o1))
            ELSE Yield(Put(w1, id, [o1 EXCEPT !.a = (o1.a + 1) % Len(o1.buf)]),
                       o1.buf[o1.a + 1])
    IN IF o.pc = "start"
       THEN LET r == Pull(w, o.up)
            IN IF r.ok
               THEN Yield(Put(r.w, id, [o EXCEPT !.buf = Append(o.buf, r.val)]), r.val)
               ELSE replay(r.w, [o EXCEPT !.pc = "replay", !.a = 0])
       ELSE replay(w, o)

\* itertools.repeat(object, times).__next__: val is the object, n is cnt
\* (-1 when times is omitted)
RepeatNext(w, id) ==
    LET o == w.objs[id] IN
    IF o.n = 0 THEN Stop(w)
    ELSE Yield(Put(w, id, [o EXCEPT !.n = IF o.n > 0 THEN o.n - 1 ELSE o.n]), o.val)

--------------------------------------------------------------------------
(* The module's generators.  A generator object is suspended at pc:       *)
(* "start" before its first next(), "done" once its body has returned.    *)

\* list(itertools.islice(it, n)): up to n items of object up; a fresh
\* islice stops without pulling once it has n items
RECURSIVE IsliceList(_, _, _, _)
IsliceList(w, up, n, acc) ==
    IF Len(acc) >= n THEN [w |-> w, items |-> acc]
    ELSE LET r == Pull(w, up)
         IN IF ~r.ok THEN [w |-> r.w, items |-> acc]
            ELSE IsliceList(r.w, up, n, Append(acc, r.val))

\* chunks_impl that ends at a chunk shorter than n instead of yielding it
chunks_impl_drops_short(w, id) ==
    LET o == w.objs[id] IN
    IF o.pc = "done" THEN Stop(w)
    ELSE LET c == IsliceList(w, o.up, o.n, <<>>)
         IN IF Len(c.items) = o.n
            THEN Yield(Put(c.w, id, [o EXCEPT !.pc = "loop"]), ListV(c.items))
            ELSE Stop(Put(c.w, id, [o EXCEPT !.pc = "done"]))

\* _chunks_impl(iterable, n): one next() of the generator
chunks_impl(w, id) ==
    LET o == w.objs[id] IN
    IF o.pc = "done" THEN Stop(w)
    ELSE LET c == IsliceList(w, o.up, o.n, <<>>)
         IN IF c.items # <<>>
            THEN Yield(Put(c.w, id, [o EXCEPT !.pc = "loop"]), ListV(c.items))
            ELSE Stop(Put(c.w, id, [o EXCEPT !.pc = "done"]))

\* the for loop of _windows_impl from its head, with the window and
\* at_least_one as they stand, to the next yield or the generator's end
RECURSIVE windows_loop(_, _, _, _)
windows_loop(w, id, window, at_least_one) ==
    LET o == w.objs[id]
        r == Pull(w, o.up)
    IN IF r.ok
       THEN LET window1 == Append(window, r.val)
            IN IF Len(window1) = o.n
               THEN Yield(Put(r.w, id, [o EXCEPT !.buf = window1, !.b = 1, !.pc = "loop"]),
                          TupleV(window1))
               ELSE windows_loop(r.w, id, window1, at_least_one)
       ELSE IF ~at_least_one /\ Len(window) # 0
            THEN Yield(Put(r.w, id, [o EXCEPT !.buf = window, !.pc = "tail"]),
                       TupleV(window))
       ELSE Stop(Put(r.w, id, [o EXCEPT !.buf = window, !.pc = "done"]))

\* windows_impl without the window.pop(0) after a yield
windows_impl_no_pop(w, id) ==
    LET o == w.objs[id] IN
    CASE o.pc = "start" -> windows_loop(w, id, <<>>, FALSE)
      [] o.pc = "loop" -> windows_loop(w, id, o.buf, o.b = 1)
      [] o.pc = "tail" -> Stop(Put(w, id, [o EXCEPT !.pc = "done"]))
      [] OTHER -> Stop(w)

\* _windows_impl(iterable, n): one next() of the generator; buf is window,
\* b is at_least_one; resumed in the loop it first does window.pop(0)
windows_impl(w, id) ==
    LET o == w.objs[id] IN
    CASE o.pc = "start" -> windows_loop(w, id, <<>>, FALSE)
      [] o.pc = "loop" -> windows_loop(w, id, Tail(o.buf), o.b = 1)
      [] o.pc = "tail" -> Stop(Put(w, id, [o EXCEPT !.pc = "done"]))
      [] OTHER -> Stop(w)

\* _flatten_impl(iterable): one next() of the generator; buf holds what is
\* left of the item being flattened
RECURSIVE flatten_impl(_, _)
flatten_impl(w, id) ==
    LET o == w.objs[id] IN
    IF o.pc = "done" THEN Stop(w)
    ELSE IF o.buf # <<>>
         THEN Yield(Put(w, id, [o EXCEPT !.buf = Tail(o.buf)]), Head(o.buf))
    ELSE LET r == Pull(w, o.up)
         IN IF ~r.ok THEN Stop(Put(r.w, id, [o EXCEPT !.pc = "done"]))
            ELSE IF ~IsIterable(r.val) THEN Yield(r.w, r.val)
            ELSE IF r.val.v = <<>> THEN flatten_impl(r.w, id)
            ELSE Yield(Put(r.w, id, [o EXCEPT !.buf = Tail(r.val.v)]), Head(r.val.v))

\* insert_impl that yields value after the item at index, not before it
insert_impl_after(w, id) ==
    LET o == w.objs[id] IN
    CASE o.pc = "done" -> Stop(w)
      [] o.pc = "value" ->
            Yield(Put(w, id, [o EXCEPT !.buf = <<>>, !.pc = "loop"]), o.buf[1])
      [] OTHER ->
            LET r == Pull(w, o.up)
            IN IF ~r.ok THEN Stop(Put(r.w, id, [o EXCEPT !.pc = "done"]))
               ELSE IF IntV(o.a) = o.arg
                    THEN Yield(Put(r.w, id, [o EXCEPT !.a = o.a + 1, !.buf = <<o.val>>,
                                                      !.pc = "value"]),
                               r.val)
               ELSE Yield(Put(r.w, id, [o EXCEPT !.a = o.a + 1, !.pc = "loop"]), r.val)

\* _insert_impl(iterable, value, index): one next() of the generator; a is
\* enumerate's counter, val is value, arg is index, buf holds the x that
\* follows a yielded value
insert_impl(w, id) ==
    LET o == w.objs[id] IN
    CASE o.pc = "done" -> Stop(w)
      [] o.pc = "value" ->
            Yield(Put(w, id, [o EXCEPT !.buf = <<>>, !.pc = "loop"]), o.buf[1])
      [] OTHER ->
            LET r == Pull(w, o.up)
            IN IF ~r.ok THEN Stop(Put(r.w, id, [o EXCEPT !.pc = "done"]))
               ELSE IF IntV(o.a) = o.arg
                    THEN Yield(Put(r.w, id, [o EXCEPT !.a = o.a + 1, !.buf = <<r.val>>,
                                                      !.pc = "value"]),
                               o.val)
               ELSE Yield(Put(r.w, id, [o EXCEPT !.a = o.a + 1, !.pc = "loop"]), r.val)

\* next(it) on heap object id
Pull(w, id) ==
    LET k == w.objs[id].kind IN
    CASE k = "list_iterator" -> ListIterNext(w, id)
      [] k = "map" -> MapNext(w, id)
      [] k = "filter" -> FilterNext(w, id)
      [] k = "enumerate" -> EnumerateNext(w, id)
      [] k = "islice" -> IsliceNext(w, id)
      [] k = "takewhile" -> TakeWhileNext(w, id)
      [] k = "dropwhile" -> DropWhileNext(w, id)
      [] k = "chain" -> ChainNext(w, id)
      [] k = "zip" -> ZipNext(w, id)
      [] k = "zip_longest" -> ZipLongestNext(w, id)
      [] k = "cycle" -> CycleNext(w, id)
      [] k = "repeat" -> RepeatNext(w, id)
      [] k = "chunks" -> chunks_impl(w, id)
      [] k = "windows" -> windows_impl(w, id)
      [] k = "flatten" -> flatten_impl(w, id)
      [] k = "insert" -> insert_impl(w, id)
      [] OTHER -> Stop(w)

--------------------------------------------------------------------------
(* input_validation: each check gives "ok" or the exception it raises *)

\* require_positive_integer without the range check
require_integer_only(n) == IF n.t # "int" THEN "TypeError" ELSE "ok"

require_positive_integer(n) ==
    IF n.t # "int" THEN "TypeError"
    ELSE IF IntOf(n) <= 0 THEN "ValueError"
    ELSE "ok"

require_non_negative_integer(n) ==
    IF n.t # "int" THEN "TypeError"
    ELSE IF IntOf(n) < 0 THEN "ValueError"
    ELSE "ok"

require_iterable(x) == IF IsIterable(x) THEN "ok" ELSE "TypeError"

require_callable(f) == IF f.tag = "notcallable" THEN "TypeError" ELSE "ok"

\* the first failure among the checks of a sequence of arguments
RECURSIVE require_each_iterable(_)
require_each_iterable(xs) ==
    IF xs = <<>> THEN "ok"
    ELSE IF require_iterable(Head(xs)) # "ok" THEN require_iterable(Head(xs))
    ELSE require_each_iterable(Tail(xs))

--------------------------------------------------------------------------
(* FancyIter.  A method takes the world w = [objs, log, insts] and the    *)
(* index self of the receiver and gives the new world and its result:     *)
(* kind "ok" with the value returned (val) or the instance returned       *)
(* (ref), or the kind of the exception raised.                            *)

Result(kind, val, ref) == [kind |-> kind, val |-> val, ref |-> ref]
Returned(w, val) == [w |-> w, res |-> Result("ok", val, 0)]
Raised(w, kind) == [w |-> w, res |-> Result(kind, NoneV, 0)]

\* self._iterable
Iterable(w, self) == w.insts[self].iterable

\* iter(x) for the heap object id: an iterator is its own iterator, and a
\* list gives a new list_iterator at its start
IterOf(w, id) ==
    IF id # 0 /\ w.objs[id].kind = "list"
    THEN [w |-> [w EXCEPT !.objs = Append(@, [Obj("list_iterator", 0) EXCEPT
                                                  !.buf = w.objs[id].buf])],
          id |-> Len(w.objs) + 1]
    ELSE [w |-> w, id |-> id]

\* FancyIter(o) for a new iterator object o over self._iterable (o.up), on
\* which the constructor of o calls iter; require_iterable calls iter(o),
\* which returns o itself, and the instance keeps o
FancyIter_init(w, o) ==
    LET i == IterOf(w, o.up)
        id == Len(i.w.objs) + 1
        w1 == [i.w EXCEPT !.objs = Append(@, [o EXCEPT !.up = i.id]),
                          !.insts = Append(@, [iterable |-> id])]
    IN [w |-> w1, res |-> Result("ok", NoneV, Len(w1.insts))]

\* functions.repeat(value, n), n being None when it is omitted
repeat(w, value, n) ==
    IF n = NoneV THEN FancyIter_init(w, [Obj("repeat", 0) EXCEPT !.val = value, !.n = -1])
    ELSE IF require_non_negative_integer(n) # "ok"
    THEN Raised(w, require_non_negative_integer(n))
    ELSE FancyIter_init(w, [Obj("repeat", 0) EXCEPT !.val = value, !.n = IntOf(n)])

\* par(chunk_size, workers, timeout): inner is a generator function, and
\* it is inner, not inner(), that is given to FancyIter, whose __init__
\* calls require_iterable on it.  Were a function iterable, the instance
\* would wrap the generator, which yields from ex.map(lambda x: x, ...),
\* the items in their order.
par(w, self, chunk_size, workers, timeout) ==
    LET inner == FunctionV
    IN IF require_iterable(inner) # "ok" THEN Raised(w, require_iterable(inner))
       ELSE FancyIter_init(w, [Obj("map", Iterable(w, self)) EXCEPT !.f = Fn("id", NoneV)])

map(w, self, func) ==
    IF require_callable(func) # "ok" THEN Raised(w, require_callable(func))
    ELSE FancyIter_init(w, [Obj("map", Iterable(w, self)) EXCEPT !.f = func])

filter(w, self, func) ==
    IF require_callable(func) # "ok" THEN Raised(w, require_callable(func))
    ELSE FancyIter_init(w, [Obj("filter", Iterable(w, self)) EXCEPT !.f = func])

filter_map(w, self, func) ==
    LET m == map(w, self, func)
    IN IF m.res.kind # "ok" THEN m
       ELSE filter(m.w, m.res.ref, Fn("is_not_none", NoneV))

chain(w, self, iterables) ==
    IF require_each_iterable(iterables) # "ok"
    THEN Raised(w, require_each_iterable(iterables))
    ELSE FancyIter_init(w, [Obj("chain", Iterable(w, self)) EXCEPT
                                !.buf = [k \in 1..Len(iterables) |-> iterables[k].v]])

chunks(w, self, n) ==
    IF require_positive_integer(n) # "ok" THEN Raised(w, require_positive_integer(n))
    ELSE FancyIter_init(w, [Obj("chunks", Iterable(w, self)) EXCEPT !.n = IntOf(n)])

chunks_exact(w, self, n) ==
    LET c == chunks(w, self, n)
    IN IF c.res.kind # "ok" THEN c
       ELSE filter(c.w, c.res.ref, Fn("len_eq", n))

cycle(w, self) == FancyIter_init(w, Obj("cycle", Iterable(w, self)))

enumerate(w, self) == FancyIter_init(w, Obj("enumerate", Iterable(w, self)))

flatten(w, self) == FancyIter_init(w, Obj("flatten", Iterable(w, self)))

insert(w, self, index, value) ==
    FancyIter_init(w, [Obj("insert", Iterable(w, self)) EXCEPT
                           !.arg = index, !.val = value])

\* every item left in object id, pulled now
RECURSIVE Materialised(_, _, _)
Materialised(w, id, acc) ==
    LET r == Pull(w, id)
    IN IF ~r.ok THEN [w |-> r.w, items |-> acc]
       ELSE Materialised(r.w, id, Append(acc, r.val))

\* an inspect that runs func over the whole source when it is called and
\* returns the items in a list
inspect_materialises(w, self, func) ==
    LET m == map(w, self, Fn("inspect", func.arg))
        l == Materialised(m.w, Iterable(m.w, m.res.ref), <<>>)
    IN FancyIter_init(l.w, [Obj("list_iterator", 0) EXCEPT !.buf = l.items])

inspect(w, self, func) == map(w, self, Fn("inspect", func.arg))

\* n items pulled from object id and dropped
RECURSIVE Drop(_, _, _)
Drop(w, id, n) == IF n <= 0 THEN w ELSE Drop(Pull(w, id).w, id, n - 1)

\* skip that drops the n items when it is called
skip_eager(w, self, n) ==
    IF require_non_negative_integer(n) # "ok"
    THEN Raised(w, require_non_negative_integer(n))
    ELSE FancyIter_init(Drop(w, Iterable(w, self), IntOf(n)),
                        [Obj("islice", Iterable(w, self)) EXCEPT
                             !.b = 0, !.n = -1, !.m = 1])

skip(w, self, n) ==
    IF require_non_negative_integer(n) # "ok"
    THEN Raised(w, require_non_negative_integer(n))
    ELSE FancyIter_init(w, [Obj("islice", Iterable(w, self)) EXCEPT
                                !.b = IntOf(n), !.n = -1, !.m = 1])

skip_while(w, self, func) ==
    IF require_callable(func) # "ok" THEN Raised(w, require_callable(func))
    ELSE FancyIter_init(w, [Obj("dropwhile", Iterable(w, self)) EXCEPT !.f = func])

step_by(w, self, n) ==
    IF require_positive_integer(n) # "ok" THEN Raised(w, require_positive_integer(n))
    ELSE FancyIter_init(w, [Obj("islice", Iterable(w, self)) EXCEPT
                                !.b = 0, !.n = -1, !.m = IntOf(n)])

take(w, self, n) ==
    IF require_non_negative_integer(n) # "ok"
    THEN Raised(w, require_non_negative_integer(n))
    ELSE FancyIter_init(w, [Obj("islice", Iterable(w, self)) EXCEPT
                                !.b = 0, !.n = IntOf(n), !.m = 1])

take_while(w, self, func) ==
    IF require_callable(func) # "ok" THEN Raised(w, require_callable(func))
    ELSE FancyIter_init(w, [Obj("takewhile", Iterable(w, self)) EXCEPT !.f = func])

fuse(w, self, stop_value) == take_while(w, self, Fn("ne", stop_value))

windows(w, self, n) ==
    IF require_positive_integer(n) # "ok" THEN Raised(w, require_positive_integer(n))
    ELSE FancyIter_init(w, [Obj("windows", Iterable(w, self)) EXCEPT !.n = IntOf(n)])

windows_exact(w, self, n) ==
    LET c == windows(w, self, n)
    IN IF c.res.kind # "ok" THEN c
       ELSE filter(c.w, c.res.ref, Fn("len_eq", n))

pairs(w, self) == windows(w, self, IntV(2))

zip(w, self, iterables) ==
    IF require_each_iterable(iterables) # "ok"
    THEN Raised(w, require_each_iterable(iterables))
    ELSE FancyIter_init(w, [Obj("zip", Iterable(w, self)) EXCEPT
                                !.buf = [k \in 1..Len(iterables) |-> iterables[k].v]])

\* zip_longest(self, *iterables) of iterator.py: the signature has no
\* parameter for a fill value, so a call that passes one by keyword raises
\* TypeError when it is bound
zip_longest(w, self, iterables, fill) ==
    IF fill # Omitted THEN Raised(w, "TypeError")
    ELSE IF require_each_iterable(iterables) # "ok"
    THEN Raised(w, require_each_iterable(iterables))
    ELSE FancyIter_init(w, [Obj("zip_longest", Iterable(w, self)) EXCEPT
                                !.buf = [k \in 1..Len(iterables) |-> iterables[k].v]])

--------------------------------------------------------------------------
(* Terminal methods *)

\* an any that looks at every item before it answers
RECURSIVE any_loop_exhausts(_, _, _)
any_loop_exhausts(w, id, func) ==
    LET r == Pull(w, id)
    IN IF ~r.ok THEN Returned(r.w, BoolV(FALSE))
       ELSE LET rest == any_loop_exhausts(r.w, id, func)
            IN IF Truthy(Apply(func, r.val)) THEN Returned(rest.w, BoolV(TRUE))
               ELSE rest

\* any(func(x) for x in it): stops at the first truthy func(x)
RECURSIVE any_loop(_, _, _)
any_loop(w, id, func) ==
    LET r == Pull(w, id)
    IN IF ~r.ok THEN Returned(r.w, BoolV(FALSE))
       ELSE IF Truthy(Apply(func, r.val)) THEN Returned(r.w, BoolV(TRUE))
       ELSE any_loop(r.w, id, func)

\* all(func(x) for x in it): stops at the first falsy func(x)
RECURSIVE all_loop(_, _, _)
all_loop(w, id, func) ==
    LET r == Pull(w, id)
    IN IF ~r.ok THEN Returned(r.w, BoolV(TRUE))
       ELSE IF ~Truthy(Apply(func, r.val)) THEN Returned(r.w, BoolV(FALSE))
       ELSE all_loop(r.w, id, func)

\* the func of any and all when the caller gives None
DefaultPredicate(func) == IF func = NoFn THEN Fn("bool", NoneV) ELSE func

any(w, self, func) ==
    IF require_callable(DefaultPredicate(func)) # "ok"
    THEN Raised(w, require_callable(DefaultPredicate(func)))
    ELSE any_loop(w, Iterable(w, self), DefaultPredicate(func))

all(w, self, func) ==
    IF require_callable(DefaultPredicate(func)) # "ok"
    THEN Raised(w, require_callable(DefaultPredicate(func)))
    ELSE all_loop(w, Iterable(w, self), DefaultPredicate(func))

contains(w, self, item) ==
    LET f == filter(w, self, Fn("eq", item))
    IN any(f.w, f.res.ref, NoFn)

\* list(it)
RECURSIVE ListOf(_, _, _)
ListOf(w, id, acc) ==
    LET r == Pull(w, id)
    IN IF ~r.ok THEN [w |-> r.w, items |-> acc]
       ELSE ListOf(r.w, id, Append(acc, r.val))

\* collect(func) with func one of list and tuple, or not callable
collect(w, self, func) ==
    IF require_callable(func) # "ok" THEN Raised(w, require_callable(func))
    ELSE LET l == ListOf(w, Iterable(w, self), <<>>)
         IN Returned(l.w, IF func.tag = "tuple" THEN TupleV(l.items) ELSE ListV(l.items))

\* hasattr(it, "__len__"): a list has a length, an iterator has none
HasLenNever(o) == FALSE

HasLen(o) == o.kind = "list"

\* sum(1 for _ in it) from the iterator object id on
RECURSIVE sum_loop(_, _, _)
sum_loop(w, id, n) ==
    LET r == Pull(w, id)
    IN IF ~r.ok THEN Returned(r.w, IntV(n)) ELSE sum_loop(r.w, id, n + 1)

\* count(func): the length of self._iterable when it has one and no func
\* is given, else the number of items of it, or of self.filter(func)
count(w, self, func) ==
    LET f == filter(w, self, func)
        i == IterOf(w, Iterable(w, self))
    IN IF func # NoFn
       THEN IF f.res.kind # "ok" THEN f
            ELSE sum_loop(f.w, Iterable(f.w, f.res.ref), 0)
       ELSE IF HasLen(w.objs[Iterable(w, self)])
            THEN Returned(w, IntV(Len(w.objs[Iterable(w, self)].buf)))
       ELSE sum_loop(i.w, i.id, 0)

\* Containers are heap objects too: kind is the type and buf the contents,
\* for a dict its (key, value) pairs in insertion order, for a set its
\* members, each once.

\* isinstance(x, typing.Collection)
require_collection(o) ==
    IF o.kind \in {"list", "dict", "set", "mutable_set", "tuple"} THEN "ok"
    ELSE "TypeError"

\* hash(x) is defined
RECURSIVE Hashable(_)
Hashable(x) ==
    CASE x.t = "list" -> FALSE
      [] x.t = "tuple" -> \A k \in 1..Len(x.v) : Hashable(x.v[k])
      [] OTHER -> TRUE

\* the iterator object id as a value
ObjectV(id) == [t |-> "object", v |-> <<id>>]

\* d[key] = value on the entries of a dict
DictSet(entries, key, value) ==
    IF \E k \in 1..Len(entries) : entries[k].v[1] = key
    THEN [k \in 1..Len(entries) |->
             IF entries[k].v[1] = key THEN TupleV(<<key, value>>) ELSE entries[k]]
    ELSE Append(entries, TupleV(<<key, value>>))

\* what dict.update raises for the item x of its argument
DictItemError(x) ==
    IF ~IsIterable(x) THEN "TypeError"
    ELSE IF Len(x.v) # 2 THEN "ValueError"
    ELSE IF ~Hashable(x.v[1]) THEN "TypeError"
    ELSE "ok"

\* s.add(x) on the members of a set
SetAdd(members, x) ==
    IF \E k \in 1..Len(members) : members[k] = x THEN members ELSE Append(members, x)

\* what storing the item x, got from the iterator object it, raises:
\* list.extend appends any item, dict.update wants a pair with a hashable
\* key, set.update a hashable item, and the add of another MutableSet is
\* given the iterator object, which is hashable
StoreError(kind, x, it) ==
    CASE kind = "dict" -> DictItemError(x)
      [] kind = "set" -> IF Hashable(x) THEN "ok" ELSE "TypeError"
      [] OTHER -> "ok"

\* the contents after the item x is stored: container.extend(items) and
\* container.update(items) store x; for a MutableSet that is not a set,
\* "for item in items: container.add(items)" adds items, the iterator
\* object itself, at every turn
Store(kind, buf, x, it) ==
    CASE kind = "list" -> Append(buf, x)
      [] kind = "dict" -> DictSet(buf, x.v[1], x.v[2])
      [] kind = "set" -> SetAdd(buf, x)
      [] OTHER -> SetAdd(buf, ObjectV(it))

\* the loop of extend / update / add over the iterator object it: each
\* item is stored as the iterator gives it, and an item that cannot be
\* stored raises with the earlier ones stored
RECURSIVE extend_loop(_, _, _)
extend_loop(w, cid, it) ==
    LET r == Pull(w, it)
        c == r.w.objs[cid]
    IN IF ~r.ok THEN Returned(r.w, NoneV)
       ELSE IF StoreError(c.kind, r.val, it) # "ok"
            THEN Raised(r.w, StoreError(c.kind, r.val, it))
       ELSE extend_loop(Put(r.w, cid, [c EXCEPT !.buf = Store(c.kind, @, r.val, it)]),
                        cid, it)

\* _collect.extend(container, items): functools.singledispatch on the type
\* of container, which raises TypeError for a type not registered
extend(w, cid, it) ==
    IF w.objs[cid].kind \in {"list", "dict", "set", "mutable_set"}
    THEN extend_loop(w, cid, it)
    ELSE Raised(w, "TypeError")

\* collect_into(collection) with collection the heap object cid
collect_into(w, self, cid) ==
    IF require_collection(w.objs[cid]) # "ok"
    THEN Raised(w, require_collection(w.objs[cid]))
    ELSE extend(w, cid, Iterable(w, self))

\* find without the except clause: StopIteration escapes
find_unconverted(w, self, func) ==
    LET id == Len(w.objs) + 1
        w1 == [w EXCEPT !.objs = Append(@, [Obj("filter", Iterable(w, self))
                                               EXCEPT !.f = func])]
        r == Pull(w1, id)
    IN IF r.ok THEN Returned(r.w, r.val) ELSE Raised(r.w, "StopIteration")

\* next(filter(func, self._iterable)), StopIteration turned into
\* ItemNotFoundError
find(w, self, func) ==
    LET id == Len(w.objs) + 1
        w1 == [w EXCEPT !.objs = Append(@, [Obj("filter", Iterable(w, self))
                                               EXCEPT !.f = func])]
        r == Pull(w1, id)
    IN IF r.ok THEN Returned(r.w, r.val) ELSE Raised(r.w, "ItemNotFoundError")

\* nth counting from one
nth_one_based(w, self, n) ==
    IF require_non_negative_integer(n) # "ok"
    THEN Raised(w, require_non_negative_integer(n))
    ELSE LET e == enumerate(w, self)
             f == find(e.w, e.res.ref, Fn("idx_eq", IntV(IntOf(n) - 1)))
         IN IF f.res.kind # "ok" THEN f ELSE Returned(f.w, f.res.val.v[2])

nth(w, self, n) ==
    IF require_non_negative_integer(n) # "ok"
    THEN Raised(w, require_non_negative_integer(n))
    ELSE LET e == enumerate(w, self)
             f == find(e.w, e.res.ref, Fn("idx_eq", n))
         IN IF f.res.kind # "ok" THEN f ELSE Returned(f.w, f.res.val.v[2])

position(w, self, item) ==
    LET e == enumerate(w, self)
        f == find(e.w, e.res.ref, Fn("item_eq", item))
    IN IF f.res.kind # "ok" THEN f ELSE Returned(f.w, f.res.val.v[1])

\* last's for loop: item is bound once the loop body has run
RECURSIVE last_loop(_, _, _, _)
last_loop(w, id, item, bound) ==
    LET r == Pull(w, id)
    IN IF r.ok THEN last_loop(r.w, id, r.val, TRUE)
       ELSE IF bound THEN Returned(r.w, item)
       ELSE Raised(r.w, "ItemNotFoundError")  \* NameError caught

last(w, self) == last_loop(w, Iterable(w, self), NoneV, FALSE)

\* key(item) in max and min: the item itself without a key, -item for the
\* key lambda x: -x, which raises TypeError on None
KeyOf(key, x) ==
    IF key = NoFn THEN [ok |-> TRUE, val |-> x]
    ELSE IF key.tag = "neg"
         THEN IF x.t = "int" THEN [ok |-> TRUE, val |-> IntV(0 - IntOf(x))]
              ELSE [ok |-> FALSE, val |-> NoneV]
    ELSE [ok |-> TRUE, val |-> Apply(key, x)]

\* a > b and a < b are defined between ints and raise TypeError with None
Comparable(a, b) == a.t = "int" /\ b.t = "int"

\* the builtin max (gt) or min (~gt) over iterator id, with a key or NoFn:
\* best is the item kept so far and bestkey its key, have says there is one
RECURSIVE min_max(_, _, _, _, _, _, _)
min_max(w, id, key, gt, best, bestkey, have) ==
    LET r == Pull(w, id)
    IN IF ~r.ok
       THEN IF have THEN Returned(r.w, best) ELSE Raised(r.w, "ValueError")
       ELSE LET k == KeyOf(key, r.val)
            IN IF ~k.ok THEN Raised(r.w, "TypeError")
               ELSE IF ~have THEN min_max(r.w, id, key, gt, r.val, k.val, TRUE)
               ELSE IF ~Comparable(k.val, bestkey) THEN Raised(r.w, "TypeError")
               ELSE IF (gt /\ IntOf(k.val) > IntOf(bestkey))
                       \/ (~gt /\ IntOf(k.val) < IntOf(bestkey))
                    THEN min_max(r.w, id, key, gt, r.val, k.val, TRUE)
               ELSE min_max(r.w, id, key, gt, best, bestkey, TRUE)

\* max and min without the except clause
EmptyAsValueError(r) == r

\* except ValueError: raise ItemNotFoundError
EmptyAsNotFound(r) ==
    IF r.res.kind = "ValueError" THEN Raised(r.w, "ItemNotFoundError") ELSE r

max(w, self, key) ==
    IF key = NoFn
    THEN EmptyAsNotFound(min_max(w, Iterable(w, self), NoFn, TRUE, NoneV, NoneV, FALSE))
    ELSE IF require_callable(key) # "ok" THEN Raised(w, require_callable(key))
    ELSE EmptyAsNotFound(min_max(w, Iterable(w, self), key, TRUE, NoneV, NoneV, FALSE))

min(w, self, key) ==
    IF key = NoFn
    THEN EmptyAsNotFound(min_max(w, Iterable(w, self), NoFn, FALSE, NoneV, NoneV, FALSE))
    ELSE IF require_callable(key) # "ok" THEN Raised(w, require_callable(key))
    ELSE EmptyAsNotFound(min_max(w, Iterable(w, self), key, FALSE, NoneV, NoneV, FALSE))

\* func(x, y) for the combining functions of reduce: lambda x, y: (x, y)
\* and lambda x, y: x + y, which raises TypeError unless both are ints
Apply2(func, x, y) ==
    IF func.tag = "add"
    THEN IF x.t = "int" /\ y.t = "int"
         THEN [ok |-> TRUE, val |-> IntV(IntOf(x) + IntOf(y))]
         ELSE [ok |-> FALSE, val |-> NoneV]
    ELSE [ok |-> TRUE, val |-> TupleV(<<x, y>>)]

\* functools.reduce(func, it) without an initial value: result is what is
\* folded so far, have says the first item was taken
RECURSIVE functools_reduce(_, _, _, _, _)
functools_reduce(w, id, func, result, have) ==
    LET r == Pull(w, id)
    IN IF ~r.ok
       THEN IF have THEN Returned(r.w, result) ELSE Raised(r.w, "TypeError")
       ELSE IF ~have THEN functools_reduce(r.w, id, func, r.val, TRUE)
       ELSE LET c == Apply2(func, result, r.val)
            IN IF ~c.ok THEN Raised(r.w, "TypeError")
               ELSE functools_reduce(r.w, id, func, c.val, TRUE)

reduce(w, self, func) ==
    IF require_callable(func) # "ok" THEN Raised(w, require_callable(func))
    ELSE functools_reduce(w, Iterable(w, self), func, NoneV, FALSE)

--------------------------------------------------------------------------
(* Calls.  A call names a method m with its arguments: n (a size or an    *)
(* index), f (a function), xs (other iterables), val (a value).           *)

Call(m, n, f, xs, val) == [m |-> m, n |-> n, f |-> f, xs |-> xs, val |-> val]

\* self.m(...) for a chainable method
Invoke(w, self, c) ==
    CASE c.m = "map" -> map(w, self, c.f)
      [] c.m = "filter" -> filter(w, self, c.f)
      [] c.m = "filter_map" -> filter_map(w, self, c.f)
      [] c.m = "chain" -> chain(w, self, c.xs)
      [] c.m = "chunks" -> chunks(w, self, c.n)
      [] c.m = "chunks_exact" -> chunks_exact(w, self, c.n)
      [] c.m = "cycle" -> cycle(w, self)
      [] c.m = "enumerate" -> enumerate(w, self)
      [] c.m = "flatten" -> flatten(w, self)
      [] c.m = "fuse" -> fuse(w, self, IF c.val = Omitted THEN NoneV ELSE c.val)
      [] c.m = "insert" -> insert(w, self, c.n, c.val)
      [] c.m = "inspect" -> inspect(w, self, c.f)
      [] c.m = "skip" -> skip(w, self, c.n)
      [] c.m = "skip_while" -> skip_while(w, self, c.f)
      [] c.m = "step_by" -> step_by(w, self, c.n)
      [] c.m = "take" -> take(w, self, c.n)
      [] c.m = "take_while" -> take_while(w, self, c.f)
      [] c.m = "windows" -> windows(w, self, c.n)
      [] c.m = "windows_exact" -> windows_exact(w, self, c.n)
      [] c.m = "pairs" -> pairs(w, self)
      [] c.m = "zip_longest" -> zip_longest(w, self, c.xs, c.val)
      [] OTHER -> zip(w, self, c.xs)

\* self.m(...) for a terminal method
InvokeTerminal(w, self, c) ==
    CASE c.m = "any" -> any(w, self, c.f)
      [] c.m = "all" -> all(w, self, c.f)
      [] c.m = "contains" -> contains(w, self, c.val)
      [] c.m = "collect" -> collect(w, self, c.f)
      [] c.m = "find" -> find(w, self, c.f)
      [] c.m = "nth" -> nth(w, self, c.n)
      [] c.m = "position" -> position(w, self, c.val)
      [] c.m = "last" -> last(w, self)
      [] c.m = "max" -> max(w, self, c.f)
      [] c.m = "min" -> min(w, self, c.f)
      [] OTHER -> reduce(w, self, c.f)

--------------------------------------------------------------------------
(* The state machine.  The root instance wraps a single-pass iterator     *)
(* over the list src, so that every pull from the wrapped source shows as *)
(* a move of that iterator.                                               *)

World == [objs |-> objs, log |-> log, insts |-> insts]

\* how many items have been pulled from the wrapped source
Pulled == objs[1].a

\* what is left of the wrapped source
Rest(at) == SubSeq(src, at + 1, Len(src))

\* the instances, and the consumers' records, after an operation that
\* left the world w
Settle(w) ==
    /\ objs' = w.objs
    /\ log' = w.log
    /\ insts' = w.insts
    /\ outs' = outs \o [k \in 1..(Len(w.insts) - Len(insts)) |-> <<>>]
    /\ stopped' = stopped \o [k \in 1..(Len(w.insts) - Len(insts)) |-> FALSE]

Record(c, self, res) ==
    hist' = Append(hist, [call |-> c, self |-> self, at |-> Pulled, res |-> res])

InitWith(S) ==
    /\ src \in S
    /\ objs = <<[Obj("list_iterator", 0) EXCEPT !.buf = src]>>
    /\ log = <<>>
    /\ insts = <<[iterable |-> 1]>>
    /\ outs = <<<<>>>>
    /\ stopped = <<FALSE>>
    /\ hist = <<>>

\* a caller calls the chainable method of call c on instance self
Chain(self, c) ==
    \E r \in {Invoke(World, self, c)} :
        /\ Settle(r.w)
        /\ Record(c, self, r.res)
        /\ UNCHANGED src

\* a consumer takes the next item of instance self: next(iter(self))
NextItem(self) ==
    /\ ~stopped[self]
    /\ \E r \in {Pull(World, Iterable(World, self))} :
        /\ objs' = r.w.objs
        /\ log' = r.w.log
        /\ outs' = [outs EXCEPT ![self] = IF r.ok THEN Append(@, r.val) ELSE @]
        /\ stopped' = [stopped EXCEPT ![self] = ~r.ok]
        /\ Record(Call("next", NoneV, NoFn, <<>>, NoneV), self,
                  IF r.ok THEN Result("ok", r.val, 0)
                  ELSE Result("StopIteration", NoneV, 0))
        /\ UNCHANGED <<src, insts>>

\* a caller calls the terminal method of call c on instance self
Terminal(self, c) ==
    \E r \in {InvokeTerminal(World, self, c)} :
        /\ Settle(r.w)
        /\ Record(c, self, r.res)
        /\ UNCHANGED src

\* the operation that made instance i, if a call returned it
MadeBy(i) == {h \in 1..Len(hist) : hist[h].res.ref = i}
Maker(i) == hist[CHOOSE h \in MadeBy(i) : TRUE]

--------------------------------------------------------------------------
(* Grouping: one of chunks, chunks_exact, windows, windows_exact is       *)
(* called on the root with a valid size, and what it returns is consumed. *)

Sizes == {IntV(k) : k \in 1..(MaxLen + 1)}

GroupCalls ==
    {Call(m, n, NoFn, <<>>, NoneV) :
        m \in {"chunks", "chunks_exact", "windows", "windows_exact"}, n \in Sizes}

GroupCall == \E c \in GroupCalls : Len(hist) = 0 /\ Chain(1, c)

GroupNext == Len(hist) > 0 /\ NextItem(hist[1].res.ref)

NextGroups == GroupCall \/ GroupNext

SpecGroups == InitWith(Sources) /\ [][NextGroups]_vars

--------------------------------------------------------------------------
(* Properties of grouping (SpecGroups) *)

\* the instances a call of method m returned
Made(m) ==
    {i \in 1..Len(insts) :
        MadeBy(i) # {} /\ Maker(i).call.m = m /\ Maker(i).res.kind = "ok"}

\* the items of a sequence of groups, in order
RECURSIVE Concat(_)
Concat(g) == IF g = <<>> THEN <<>> ELSE Head(g).v \o Concat(Tail(g))

IsPrefix(p, s) == Len(p) <= Len(s) /\ p = SubSeq(s, 1, Len(p))

\* C1: the groups chunks(n) has emitted are lists of 1 to n items, all but
\* the latest of exactly n, whose concatenation is a prefix of the source;
\* once chunks(n) is exhausted the concatenation is the whole source (so an
\* empty source gives no group).
C1_ChunksPartitionSource ==
    \A i \in Made("chunks") :
        LET n == IntOf(Maker(i).call.n)
            S == Rest(Maker(i).at)
            g == outs[i]
        IN /\ \A k \in 1..Len(g) :
                /\ g[k].t = "list"
                /\ Len(g[k].v) >= 1
                /\ Len(g[k].v) <= n
                /\ k < Len(g) => Len(g[k].v) = n
           /\ IsPrefix(Concat(g), S)
           /\ stopped[i] => Concat(g) = S

\* chunks(2) of a source of three items is exhausted after a full and a
\* short group
C1_Witness ==
    \E i \in Made("chunks") :
        /\ stopped[i] /\ IntOf(Maker(i).call.n) = 2 /\ Len(src) = 3
        /\ Len(outs[i]) = 2 /\ Len(outs[i][2].v) = 1

\* C2: window k of windows(n) holds items k..k+n-1 of the source when the
\* source has at least n items, and exhausted it has emitted len-n+1 of
\* them; a shorter non-empty source gives the one group of all its items,
\* an empty source none.
C2_WindowsSlide ==
    \A i \in Made("windows") :
        LET n == IntOf(Maker(i).call.n)
            S == Rest(Maker(i).at)
            g == outs[i]
        IN IF Len(S) >= n
           THEN /\ \A k \in 1..Len(g) : g[k] = TupleV(SubSeq(S, k, k + n - 1))
                /\ Len(g) <= Len(S) - n + 1
                /\ stopped[i] => Len(g) = Len(S) - n + 1
           ELSE /\ \A k \in 1..Len(g) : g[k] = TupleV(S)
                /\ Len(g) <= 1
                /\ stopped[i] => Len(g) = (IF Len(S) > 0 THEN 1 ELSE 0)

\* windows(2) of three items is exhausted after two windows, and windows(3)
\* of two items after one short group
C2_Witness ==
    \E i \in Made("windows") :
        /\ stopped[i]
        /\ \/ IntOf(Maker(i).call.n) = 2 /\ Len(src) = 3 /\ Len(outs[i]) = 2
           \/ IntOf(Maker(i).call.n) = 3 /\ Len(src) = 2 /\ Len(outs[i]) = 1

\* what a consumer gets from the call c on a fresh wrapper of the list S
Emitted(S, c) ==
    LET w0 == [objs |-> <<[Obj("list_iterator", 0) EXCEPT !.buf = S]>>,
               log |-> <<>>, insts |-> <<[iterable |-> 1]>>]
        r == Invoke(w0, 1, c)
    IN ListOf(r.w, Iterable(r.w, r.res.ref), <<>>).items

IsPrefixOfSelected(g, full, n) ==
    IsPrefix(g, SelectSeq(full, LAMBDA x : Len(x.v) = n))

\* C3: chunks_exact(n) and windows_exact(n) emit, in order, the groups of
\* length n that chunks(n) and windows(n) emit and no other group:
\* chunks_exact(n) the floor(len/n) full chunks, windows_exact(n) the
\* len-n+1 windows, or nothing when the source has fewer than n items.
C3_ExactKeepsFullGroups ==
    /\ \A i \in Made("chunks_exact") :
        LET n == IntOf(Maker(i).call.n)
            S == Rest(Maker(i).at)
            g == outs[i]
            full == Emitted(S, Call("chunks", Maker(i).call.n, NoFn, <<>>, NoneV))
        IN /\ \A k \in 1..Len(g) : g[k] = ListV(SubSeq(S, (k - 1) * n + 1, k * n))
           /\ IsPrefixOfSelected(g, full, n)
           /\ stopped[i] => /\ Len(g) = Len(S) \div n
                            /\ g = SelectSeq(full, LAMBDA x : Len(x.v) = n)
    /\ \A i \in Made("windows_exact") :
        LET n == IntOf(Maker(i).call.n)
            S == Rest(Maker(i).at)
            g == outs[i]
            full == Emitted(S, Call("windows", Maker(i).call.n, NoFn, <<>>, NoneV))
        IN /\ \A k \in 1..Len(g) : g[k] = TupleV(SubSeq(S, k, k + n - 1))
           /\ IsPrefixOfSelected(g, full, n)
           /\ stopped[i] => /\ Len(g) = (IF Len(S) < n THEN 0 ELSE Len(S) - n + 1)
                            /\ g = SelectSeq(full, LAMBDA x : Len(x.v) = n)

\* chunks_exact(2) of three items is exhausted after one chunk, its short
\* chunk dropped, and windows_exact(3) of two items after emitting nothing
C3_Witness ==
    \/ \E i \in Made("chunks_exact") :
        stopped[i] /\ IntOf(Maker(i).call.n) = 2 /\ Len(src) = 3 /\ Len(outs[i]) = 1
    \/ \E i \in Made("windows_exact") :
        stopped[i] /\ IntOf(Maker(i).call.n) = 3 /\ Len(src) = 2 /\ outs[i] = <<>>

--------------------------------------------------------------------------
(* Terminals: the root is consumed for a while, then one terminal method  *)
(* is called on it.                                                       *)

Indexes == {IntV(k) : k \in (0 - 1)..(MaxLen + 1)} \cup {StrV}

Predicates == {Fn("eq", x) : x \in Elems} \cup {Fn("bool", NoneV)}

Keys == {NoFn, Fn("neg", NoneV), Fn("notcallable", NoneV)}

Combiners == {Fn("tup", NoneV), Fn("add", NoneV), Fn("notcallable", NoneV)}

TermCalls ==
    {Call("contains", NoneV, NoFn, <<>>, x) : x \in Elems \cup {IntV(MaxVal + 1)}}
    \cup {Call("find", NoneV, f, <<>>, NoneV) : f \in Predicates}
    \cup {Call("any", NoneV, f, <<>>, NoneV) : f \in {NoFn, Fn("eq", IntV(0))}}
    \cup {Call("nth", n, NoFn, <<>>, NoneV) : n \in Indexes}
    \cup {Call("last", NoneV, NoFn, <<>>, NoneV)}
    \cup {Call(m, NoneV, f, <<>>, NoneV) : m \in {"max", "min"}, f \in Keys}
    \cup {Call("reduce", NoneV, f, <<>>, NoneV) : f \in Combiners}

\* nothing but next() has been called so far
OnlyConsumed == \A h \in 1..Len(hist) : hist[h].call.m = "next"

TermConsume == OnlyConsumed /\ NextItem(1)

TermCall == \E c \in TermCalls : OnlyConsumed /\ ~stopped[1] /\ Terminal(1, c)

NextTerm == TermConsume \/ TermCall

SpecTerm == InitWith(Sources) /\ [][NextTerm]_vars

--------------------------------------------------------------------------
(* Properties of the terminals (SpecTerm) *)

\* the operations so far that called method m
Called(m) == {h \in 1..Len(hist) : hist[h].call.m = m}

\* C6 as claimed: contains(item) returns true exactly when some element of
\* the source equals item, whatever item is.
C6_ContainsIffPresent ==
    \A h \in Called("contains") :
        LET S == Rest(hist[h].at)
        IN hist[h].res =
               Result("ok", BoolV(\E k \in 1..Len(S) : S[k] = hist[h].call.val), 0)

\* the positions of S whose element satisfies the predicate f
Hits(S, f) == {k \in 1..Len(S) : Truthy(Apply(f, S[k]))}

Least(K) == CHOOSE k \in K : \A j \in K : k <= j

C8_NthIndexOrNotFound ==
    \A h \in Called("nth") :
        LET S == Rest(hist[h].at)
            n == hist[h].call.n
        IN (n.t = "int" /\ IntOf(n) >= 0) =>
              IF IntOf(n) < Len(S)
              THEN hist[h].res = Result("ok", S[IntOf(n) + 1], 0)
              ELSE hist[h].res = Result("ItemNotFoundError", NoneV, 0)

\* nth(len) on a non-empty source raised ItemNotFoundError
C8_Witness ==
    \E h \in Called("nth") :
        /\ hist[h].call.n = IntV(Len(Rest(hist[h].at)))
        /\ Len(Rest(hist[h].at)) > 1
        /\ hist[h].res.kind = "ItemNotFoundError"

RECURSIVE FoldTup(_, _)
FoldTup(acc, S) ==
    IF S = <<>> THEN acc ELSE FoldTup(TupleV(<<acc, Head(S)>>), Tail(S))

\* C10 as claimed: reduce(combine) on an empty source raises an error of
\* another kind than the one raised for a combine that is not callable, and
\* on a non-empty source returns the left fold.
C10_ReduceEmptyDistinguishable ==
    \A h \in Called("reduce") :
        LET S == Rest(hist[h].at)
        IN /\ (S = <<>> /\ require_callable(hist[h].call.f) = "ok") =>
                 /\ hist[h].res.kind # "ok"
                 /\ hist[h].res.kind # require_callable(Fn("notcallable", NoneV))
           /\ (S # <<>> /\ hist[h].call.f = Fn("tup", NoneV)) =>
                 hist[h].res = Result("ok", FoldTup(Head(S), Tail(S)), 0)

--------------------------------------------------------------------------
(* Laziness: chainable methods are called on any instance at any time,    *)
(* and any instance is consumed item by item.                             *)

\* the sources 0, 1, ..., MaxVal, 0, ... of each length
Ramps == {s \in Sources : \A k \in 1..Len(s) : s[k] = IntV((k - 1) % (MaxVal + 1))}

NotCallable == Fn("notcallable", NoneV)

\* an other iterable for chain and zip
Other == ListV(<<IntV(0)>>)

LazyCalls ==
    {Call(m, IntV(2), NoFn, <<>>, NoneV) :
        m \in {"chunks", "chunks_exact", "windows", "windows_exact", "step_by"}}
    \cup {Call(m, IntV(1), NoFn, <<>>, NoneV) : m \in {"skip", "take"}}
    \cup {Call("map", NoneV, Fn("wrap", NoneV), <<>>, NoneV)}
    \cup {Call(m, NoneV, Fn("eq", IntV(0)), <<>>, NoneV) :
             m \in {"filter", "skip_while", "take_while"}}
    \cup {Call("filter_map", NoneV, Fn("none_if", IntV(0)), <<>>, NoneV)}
    \cup {Call(m, NoneV, NoFn, <<Other>>, NoneV) : m \in {"chain", "zip"}}
    \cup {Call(m, NoneV, NoFn, <<>>, NoneV) : m \in {"cycle", "enumerate", "flatten", "pairs"}}
    \cup {Call("fuse", NoneV, NoFn, <<>>, IntV(1))}
    \cup {Call("insert", IntV(1), NoFn, <<>>, IntV(MaxVal + 1))}
    \cup {Call("inspect", NoneV, Fn("act", IntV(1)), <<>>, NoneV)}

\* object id, or one it pulls from, is an itertools.cycle
RECURSIVE OverCycle(_)
OverCycle(id) ==
    id # 0 /\ (objs[id].kind = "cycle" \/ OverCycle(objs[id].up))

\* a next() on object id may never return: it, or one it pulls from, loops
\* until an item passes a test, over a cycle
RECURSIVE MayHang(_)
MayHang(id) ==
    /\ id # 0
    /\ \/ objs[id].kind \in {"filter", "dropwhile", "flatten"} /\ OverCycle(id)
       \/ MayHang(objs[id].up)

\* the chainable calls made so far, and the next() calls
Chained == {h \in 1..Len(hist) : hist[h].call.m # "next"}
Consumed == {h \in 1..Len(hist) : hist[h].call.m = "next"}

LazyCall ==
    \E self \in 1..Len(insts), c \in LazyCalls :
        Cardinality(Chained) < MaxCalls /\ Chain(self, c)

LazyConsume ==
    \E self \in 1..Len(insts) :
        /\ Cardinality(Consumed) < MaxPulls
        /\ ~MayHang(Iterable(World, self))
        /\ NextItem(self)

NextLazy == LazyCall \/ LazyConsume

SpecLazy == InitWith({s \in Ramps : Len(s) = MaxLen}) /\ [][NextLazy]_vars

--------------------------------------------------------------------------
(* Size arguments: a method that takes a size is called on the root, once, *)
(* with a size good or bad; the root and what the call returned are       *)
(* consumed.                                                              *)

SizeArgs == {IntV(k) : k \in (0 - 1)..(MaxVal + 1)} \cup {StrV}

\* the methods that check a size with require_positive_integer, and with
\* require_non_negative_integer
PositiveSized == {"chunks", "chunks_exact", "windows", "windows_exact", "step_by"}
NonNegativeSized == {"skip", "take"}

SizedCalls ==
    {Call(m, n, NoFn, <<>>, NoneV) :
        m \in PositiveSized \cup NonNegativeSized, n \in SizeArgs}

SizedCall == \E c \in SizedCalls : Chained = {} /\ Chain(1, c)

SizedConsume ==
    \E self \in 1..Len(insts) : Len(outs[self]) <= MaxLen /\ NextItem(self)

NextSized == SizedCall \/ SizedConsume

SpecSized == InitWith(Ramps) /\ [][NextSized]_vars

--------------------------------------------------------------------------
(* Properties of laziness (SpecLazy) and of size arguments (SpecSized) *)

\* this step is a call of a chainable method
ChainStep == Len(hist') = Len(hist) + 1 /\ hist'[Len(hist')].call.m # "next"

\* this step leaves every iterator object and every instance as it was, and
\* runs no caller's function: nothing was pulled from any source
PullsNothing ==
    /\ \A k \in 1..Len(objs) : objs'[k] = objs[k]
    /\ \A i \in 1..Len(insts) : insts'[i] = insts[i]
    /\ log' = log

\* C4: a call of a chainable method pulls no element, from the wrapped
\* source or from any other iterator, leaves the receiver's wrapped source
\* as it was, and returns a new instance.
C4_ChainablePullsNothing ==
    [][ChainStep => /\ PullsNothing
                    /\ hist'[Len(hist')].res.kind = "ok"
                    /\ hist'[Len(hist')].res.ref = Len(insts')
                    /\ Len(insts') > Len(insts)]_vars

\* a method was called on a receiver already consumed in part, the next
\* operation took an item from the instance it returned, and the source was
\* where the call had found it
C4_Witness ==
    \E h \in Chained :
        /\ hist[h].at > 0 /\ hist[h].res.kind = "ok"
        /\ h < Len(hist)
        /\ hist[h + 1].call.m = "next" /\ hist[h + 1].self = hist[h].res.ref
        /\ hist[h + 1].res.kind = "ok"
        /\ hist[h + 1].at = hist[h].at
        /\ Pulled > hist[h].at

\* the size n is not one the method m accepts
BadSize(m, n) ==
    IF m \in PositiveSized THEN ~(n.t = "int" /\ IntOf(n) > 0)
    ELSE ~(n.t = "int" /\ IntOf(n) >= 0)

\* the kinds of the invalid-argument error
InvalidArgument == {"TypeError", "ValueError"}

\* C5: chunks, chunks_exact, windows, windows_exact and step_by called with
\* a size that is not a positive integer, and skip and take with one that
\* is not a non-negative integer, raise an invalid-argument error at the
\* call, having pulled nothing and returning no instance.
C5_BadSizeRaisesAtCall ==
    [][(ChainStep /\ BadSize(hist'[Len(hist')].call.m, hist'[Len(hist')].call.n)) =>
           /\ hist'[Len(hist')].res.kind \in InvalidArgument
           /\ hist'[Len(hist')].res.ref = 0
           /\ objs' = objs /\ insts' = insts /\ log' = log]_vars

\* a call with size 0 raised ValueError on a root consumed in part, and the
\* root then gave the item that follows the ones consumed before the call
C5_Witness ==
    \E h \in Chained :
        /\ hist[h].call.n = IntV(0) /\ hist[h].call.m \in PositiveSized
        /\ hist[h].res.kind = "ValueError"
        /\ hist[h].at = 1 /\ Len(src) > 1
        /\ h < Len(hist)
        /\ hist[h + 1].call.m = "next" /\ hist[h + 1].self = 1
        /\ hist[h + 1].res = Result("ok", src[2], 0)

--------------------------------------------------------------------------
(* Splicing: one of fuse, insert, zip_longest is called on the root, and  *)
(* what it returns is consumed.                                           *)

\* a value no source holds
Foreign == IntV(MaxVal + 1)

\* the other iterable of zip_longest: lists shorter and longer than the
\* source
OtherLists == {ListV([k \in 1..l |-> IntV(0)]) : l \in 0..(MaxLen + 1)}

SpliceCalls ==
    {Call("fuse", NoneV, NoFn, <<>>, v) : v \in {Omitted, Foreign} \cup Elems}
    \cup {Call("insert", IntV(k), NoFn, <<>>, v) :
             k \in 0..(MaxLen + 1), v \in {Foreign, IntV(0)}}
    \cup {Call("zip_longest", NoneV, NoFn, <<o>>, v) :
             o \in OtherLists, v \in {Omitted, Foreign}}

SpliceCall == \E c \in SpliceCalls : Len(hist) = 0 /\ Chain(1, c)

SpliceNext ==
    Len(hist) > 0 /\ hist[1].res.kind = "ok" /\ NextItem(hist[1].res.ref)

NextSplice == SpliceCall \/ SpliceNext

SpecSplice == InitWith(Sources) /\ [][NextSplice]_vars

--------------------------------------------------------------------------
(* Properties of splicing (SpecSplice) *)

\* instance i has emitted a prefix of the sequence E, and all of E once it
\* has stopped
Emits(i, E) == IsPrefix(outs[i], E) /\ (stopped[i] => outs[i] = E)

\* the items of S before the first one equal to v
RECURSIVE PrefixBefore(_, _)
PrefixBefore(S, v) ==
    IF S = <<>> \/ Head(S) = v THEN <<>>
    ELSE <<Head(S)>> \o PrefixBefore(Tail(S), v)

\* C11 as claimed: fuse() with no stop_value emits every element of the
\* source in order, whatever the elements are, and fuse(v) emits the
\* elements before the first one equal to v.
C11_FuseIdentityOrPrefix ==
    \A i \in Made("fuse") :
        IF Maker(i).call.val = Omitted THEN Emits(i, src)
        ELSE Emits(i, PrefixBefore(src, Maker(i).call.val))

\* S with v before the item at zero-based position idx, S when it has no
\* such item
Spliced(S, idx, v) ==
    IF idx < Len(S) THEN SubSeq(S, 1, idx) \o <<v>> \o SubSeq(S, idx + 1, Len(S))
    ELSE S

\* C12: insert(index, value), index >= 0, emits the source with value once,
\* just before the element at zero-based position index, and emits the
\* source as it is when index >= len(S).
C12_InsertSplicesBefore ==
    \A i \in Made("insert") :
        Emits(i, Spliced(src, IntOf(Maker(i).call.n), Maker(i).call.val))

\* an insert in the middle of the source was consumed to its end, and the
\* value, one the source does not hold, came out at position index
C12_Witness ==
    \E i \in Made("insert") :
        LET idx == IntOf(Maker(i).call.n)
        IN /\ stopped[i] /\ Maker(i).call.val = Foreign
           /\ idx > 0 /\ idx + 1 < Len(src)
           /\ outs[i][idx + 1] = Foreign
           /\ Len(outs[i]) = Len(src) + 1

Longest(a, b) == IF a >= b THEN a ELSE b

\* the tuples of S and the list other up to the longer of the two, with
\* fill in the slot of the one that is exhausted
FilledTuples(S, other, fill) ==
    [k \in 1..Longest(Len(S), Len(other)) |->
        TupleV(<<IF k <= Len(S) THEN S[k] ELSE fill,
                 IF k <= Len(other) THEN other[k] ELSE fill>>)]

\* C13 as claimed: zip_longest(other, fill) returns a sequence of one tuple
\* per position up to the longer of the source and other, with the fill
\* value the caller gave in the slot of the exhausted one.
C13_ZipLongestFills ==
    \A h \in 1..Len(hist) :
        (hist[h].call.m = "zip_longest" /\ hist[h].call.val # Omitted) =>
            /\ hist[h].res.kind = "ok"
            /\ hist[h].res.ref \in 1..Len(insts)
            /\ Emits(hist[h].res.ref,
                     FilledTuples(src, hist[h].call.xs[1].v, hist[h].call.val))

--------------------------------------------------------------------------
(* Collecting: the caller makes a container with some contents, then      *)
(* calls collect_into with it on the root.                                *)

\* (key, value) pairs, and a list, which cannot be hashed
Pairs ==
    {TupleV(<<IntV(0), IntV(v)>>) : v \in 0..MaxVal} \cup {TupleV(<<IntV(1), IntV(0)>>)}

CollectSources ==
    SeqsUpTo({IntV(i) : i \in 0..MaxVal} \cup Pairs \cup {ListV(<<>>)}, MaxLen)

\* the containers, each a type with its contents
Containers ==
    {[t |-> k, v |-> p] : k \in {"list", "set", "mutable_set"}, p \in {<<>>, <<IntV(0)>>}}
    \cup {[t |-> "dict", v |-> p] : p \in {<<>>, <<TupleV(<<IntV(0), IntV(0)>>)>>}}
    \cup {[t |-> "tuple", v |-> <<IntV(0)>>], [t |-> "int", v |-> <<>>]}

\* the heap index of the container: the one after the root's iterator
Container == 2

\* the caller makes container c
MakeContainer ==
    \E c \in Containers :
        /\ Len(hist) = 0
        /\ objs' = Append(objs, [Obj(c.t, 0) EXCEPT !.buf = c.v])
        /\ Record(Call("container", NoneV, NoFn, <<>>, c), 0, Result("ok", NoneV, 0))
        /\ UNCHANGED <<src, log, insts, outs, stopped>>

\* the caller calls collect_into with the container on the root
CollectInto ==
    /\ Len(hist) = 1
    /\ \E r \in {collect_into(World, 1, Container)} :
        /\ Settle(r.w)
        /\ Record(Call("collect_into", IntV(Container), NoFn, <<>>, NoneV), 1, r.res)
        /\ UNCHANGED src

NextCollect == MakeContainer \/ CollectInto

SpecCollect == InitWith(CollectSources) /\ [][NextCollect]_vars

--------------------------------------------------------------------------
(* Properties of collecting (SpecCollect) *)

\* collect_into has been called
Collected == Len(hist) = 2

\* the container the caller made, and what it holds now
Before == hist[1].call.val
Now == objs[Container].buf

Range(s) == {s[k] : k \in 1..Len(s)}

\* the value of key k after the writes of the pairs ps, in order
LastValue(ps, k) ==
    LET at == CHOOSE i \in 1..Len(ps) :
                  ps[i].v[1] = k /\ \A j \in (i + 1)..Len(ps) : ps[j].v[1] # k
    IN ps[at].v[2]

\* C14 as claimed: collect_into(c) leaves in c, for a list, its prior
\* items followed by the source; for a dict, its prior entries updated by
\* the source's pairs, the last write of a key winning; for any mutable
\* set, built in or not, its prior members and each element of the source;
\* and it raises for any other c.
C14_CollectIntoByKind ==
    Collected =>
        LET whole == Before.v \o src IN
        CASE Before.t = "list" ->
                 hist[2].res.kind = "ok" /\ Now = whole
          [] Before.t = "dict" /\ Range(src) \subseteq Pairs ->
                 /\ hist[2].res.kind = "ok"
                 /\ Range(Now) = {TupleV(<<p.v[1], LastValue(whole, p.v[1])>>) : p \in Range(whole)}
                 /\ Len(Now) = Cardinality(Range(Now))
          [] Before.t \in {"set", "mutable_set"} /\ \A x \in Range(src) : Hashable(x) ->
                 /\ hist[2].res.kind = "ok"
                 /\ Range(Now) = Range(whole)
                 /\ Len(Now) = Cardinality(Range(Now))
          [] Before.t \in {"tuple", "int"} ->
                 hist[2].res.kind = "TypeError" /\ Now = Before.v
          [] OTHER -> TRUE

\* C18 as claimed: when collect_into(c) raises, c holds what it held before
\* the call.
C18_CollectIntoAllOrNothing ==
    (Collected /\ hist[2].res.kind # "ok") => Now = Before.v

--------------------------------------------------------------------------
(* Short circuit: the root is consumed at any time, and any or all is     *)
(* called on it once.                                                     *)

ShortCalls ==
    {Call(m, NoneV, f, <<>>, NoneV) :
        m \in {"any", "all"}, f \in {NoFn, Fn("eq", IntV(0)), Fn("ne", IntV(0))}}

ShortConsume == NextItem(1)

ShortCall ==
    \E c \in ShortCalls :
        /\ OnlyConsumed
        /\ \E r \in {IF c.m = "any" THEN any(World, 1, c.f) ELSE all(World, 1, c.f)} :
               /\ Settle(r.w)
               /\ Record(c, 1, r.res)
               /\ UNCHANGED src

NextShort == ShortConsume \/ ShortCall

SpecShort == InitWith(Sources) /\ [][NextShort]_vars

--------------------------------------------------------------------------
(* Properties of the short circuit (SpecShort) *)

\* how many items had been pulled from the source when operation h ended
After(h) == IF h < Len(hist) THEN hist[h + 1].at ELSE Pulled

\* the element x settles the answer of the call c: func(x) is true for
\* any, false for all, func being bool when the caller gives none
Settles(c, x) ==
    LET t == Truthy(Apply(IF c.f = NoFn THEN Fn("bool", NoneV) ELSE c.f, x))
    IN IF c.m = "any" THEN t ELSE ~t

\* the next() that follows operation h gave the element of the source at
\* the position where h had left it
NextIsIntact(h) ==
    h < Len(hist) =>
        hist[h + 1].res = IF After(h) < Len(src) THEN Result("ok", src[After(h) + 1], 0)
                          ELSE Result("StopIteration", NoneV, 0)

\* C15: any(p) and all(p) pull the source up to the first element that
\* settles the answer (p true for any, p false for all; p is bool when it
\* is omitted) and no further, so that the elements after it are still
\* there, and return true / false; without such an element they pull the
\* whole source and return false / true.
C15_AnyAllShortCircuit ==
    \A h \in Called("any") \cup Called("all") :
        LET c == hist[h].call
            at == hist[h].at
            hits == {k \in (at + 1)..Len(src) : Settles(c, src[k])}
        IN /\ NextIsIntact(h)
           /\ IF hits # {}
              THEN /\ After(h) = Least(hits)
                   /\ hist[h].res = Result("ok", BoolV(c.m = "any"), 0)
              ELSE /\ After(h) = Len(src)
                   /\ hist[h].res = Result("ok", BoolV(c.m = "all"), 0)

\* any stopped at an element that is neither the first it pulled nor the
\* last of the source, and the next() after it gave the element that
\* follows
C15_Witness ==
    \E h \in Called("any") :
        /\ hist[h].res.val = BoolV(TRUE)
        /\ After(h) > hist[h].at + 1
        /\ After(h) < Len(src)
        /\ h < Len(hist)
        /\ hist[h + 1].res = Result("ok", src[After(h) + 1], 0)

--------------------------------------------------------------------------
(* Counting: the root wraps a list, which has a length, or an iterator    *)
(* over it, which has none and is consumed at any time; count is called   *)
(* on the root once.                                                      *)

InitCount ==
    /\ src \in Sources
    /\ \E k \in {"list", "list_iterator"} : objs = <<[Obj(k, 0) EXCEPT !.buf = src]>>
    /\ log = <<>>
    /\ insts = <<[iterable |-> 1]>>
    /\ outs = <<<<>>>>
    /\ stopped = <<FALSE>>
    /\ hist = <<>>

CountCalls ==
    {Call("count", NoneV, f, <<>>, NoneV) :
        f \in {NoFn, Fn("eq", IntV(0)), Fn("is_not_none", NoneV)}}

CountConsume == objs[1].kind = "list_iterator" /\ NextItem(1)

CountCall ==
    \E c \in CountCalls :
        /\ OnlyConsumed
        /\ \E r \in {count(World, 1, c.f)} :
               /\ Settle(r.w)
               /\ Record(c, 1, r.res)
               /\ UNCHANGED src

NextCount == CountConsume \/ CountCall

SpecCount == InitCount /\ [][NextCount]_vars

--------------------------------------------------------------------------
(* Properties of counting (SpecCount) *)

\* the heap holds the list the root wraps and nothing else: no iterator
\* over it was made
ListUntouched == objs = <<[Obj("list", 0) EXCEPT !.buf = src]>>

\* every iterator over the source is at its end
SourceExhausted ==
    \A k \in 1..Len(objs) : objs[k].kind = "list_iterator" => objs[k].a = Len(src)

\* C16: count() without predicate on a source that has a length returns
\* the length and pulls nothing; otherwise count consumes the source to
\* its end and returns the number of elements it pulled, or of those that
\* satisfy the predicate.
C16_CountLenOrConsume ==
    \A h \in Called("count") :
        LET f == hist[h].call.f
            left == (hist[h].at + 1)..Len(src)
        IN IF f = NoFn /\ objs[1].kind = "list"
           THEN hist[h].res = Result("ok", IntV(Len(src)), 0) /\ ListUntouched
           ELSE /\ SourceExhausted
                /\ hist[h].res =
                     Result("ok", IntV(Cardinality({k \in left : f = NoFn \/ Truthy(Apply(f, src[k]))})), 0)

\* count() returned the length of a list of MaxLen items, of which no
\* iterator was made
C16_Witness ==
    \E h \in Called("count") :
        /\ hist[h].call.f = NoFn /\ objs[1].kind = "list"
        /\ Len(src) = MaxLen
        /\ hist[h].res.val = IntV(MaxLen)
        /\ ListUntouched

--------------------------------------------------------------------------
(* Properties of ownership (SpecLazy) *)

\* this step is a next() on an instance
ConsumeStep == Len(hist') = Len(hist) + 1 /\ hist'[Len(hist')].call.m = "next"

\* what instance j yields next: the outcome of next(iter(j)) in this state
NextOf(j) ==
    LET r == Pull(World, Iterable(World, j))
    IN [ok |-> r.ok, val |-> r.val]

\* C17 as claimed: a next() on one instance leaves what every other
\* instance yields next as it was.
C17_NoSharedPosition ==
    [][\A j \in 1..Len(insts) :
          (ConsumeStep /\ hist'[Len(hist')].self # j /\ ~MayHang(Iterable(World, j)))
              => NextOf(j)' = NextOf(j)]_vars

--------------------------------------------------------------------------
(* Pipeline: inspect(a).map(f).inspect(b) is built on the root, stage by  *)
(* stage, and what the last stage returned is consumed.                   *)

\* the actions a and b, and f = lambda x: [x]
ActA == Fn("act", IntV(0))
ActB == Fn("act", IntV(1))

Stages ==
    <<Call("inspect", NoneV, ActA, <<>>, NoneV),
      Call("map", NoneV, Fn("wrap", NoneV), <<>>, NoneV),
      Call("inspect", NoneV, ActB, <<>>, NoneV)>>

\* the next stage is called on what the stage before returned
PipeBuild == Len(hist) < Len(Stages) /\ Chain(Len(insts), Stages[Len(hist) + 1])

PipeConsume == Len(hist) >= Len(Stages) /\ NextItem(Len(insts))

NextPipe == PipeBuild \/ PipeConsume

SpecPipe == InitWith(Sources) /\ [][NextPipe]_vars

--------------------------------------------------------------------------
(* Properties of the pipeline (SpecPipe) *)

\* the calls of a and b when k elements went through the pipeline one at a
\* time: a(S[1]), b(f(S[1])), a(S[2]), b(f(S[2])), ...
OneByOne(S, k) ==
    [i \in 1..(2 * k) |->
        IF i % 2 = 1 THEN <<ActA.arg, S[(i + 1) \div 2]>>
        ELSE <<ActB.arg, Apply(Fn("wrap", NoneV), S[i \div 2])>>]

\* C19: building inspect(a).map(f).inspect(b) applies nothing; when k
\* elements of it have been consumed a was applied to exactly the first k
\* elements of the source, a on element i before b on f(element i) and b
\* for element i before a on element i + 1.
C19_PipelineOneByOne ==
    LET k == Len(outs[Len(insts)])
    IN IF Len(hist) < Len(Stages) THEN log = <<>>
       ELSE /\ log = OneByOne(src, k)
            /\ outs[Len(insts)] = [i \in 1..k |-> Apply(Fn("wrap", NoneV), src[i])]

\* two elements of a longer source went through the pipeline
C19_Witness ==
    /\ Len(hist) = Len(Stages) + 2
    /\ Len(src) > 2
    /\ Len(outs[Len(insts)]) = 2
    /\ Len(log) = 4
    /\ log[2] = <<ActB.arg, ListV(<<src[1]>>)>>
    /\ log[3] = <<ActA.arg, src[2]>>

--------------------------------------------------------------------------
(* Parallel: the root is consumed at any time, and par is called on it    *)
(* once, with a chunk size and a number of workers.                       *)

ParCalls ==
    {Call("par", IntV(n), NoFn, <<>>, k) :
        n \in 1..(MaxLen + 1), k \in {NoneV} \cup {IntV(i) : i \in 1..MaxLen}}

ParConsume == NextItem(1)

ParCall ==
    \E c \in ParCalls :
        /\ OnlyConsumed
        /\ \E r \in {par(World, 1, c.n, c.val, NoneV)} :
               /\ Settle(r.w)
               /\ Record(c, 1, r.res)
               /\ UNCHANGED src

NextPar == ParConsume \/ ParCall

SpecPar == InitWith(Sources) /\ [][NextPar]_vars

--------------------------------------------------------------------------
(* Properties of par (SpecPar) *)

\* C20 as claimed: par(chunk_size, workers, timeout) returns a sequence
\* that yields the elements of the source in their order, whatever the
\* chunk size and the number of workers.
C20_ParKeepsOrder ==
    \A h \in Called("par") :
        /\ hist[h].res.kind = "ok"
        /\ hist[h].res.ref \in 1..Len(insts)
        /\ IsPrefix(outs[hist[h].res.ref], Rest(hist[h].at))

--------------------------------------------------------------------------
(* Take: the root wraps a list iterator or a repeat; cycle may be called  *)
(* on it, then inspect(a), so that the log shows every item that leaves   *)
(* the source; that sequence may be consumed for a while, then take(n) is *)
(* called on it and consumed, item by item or by collect.                 *)

\* the root is repeat(v, n): src is then what it yields, one v when it is
\* endless
InitRepeat ==
    \E v \in Elems, n \in {NoneV} \cup {IntV(k) : k \in 0..MaxLen} :
        \E r \in {repeat([objs |-> <<>>, log |-> <<>>, insts |-> <<>>], v, n)} :
            /\ src = IF n = NoneV THEN <<v>> ELSE [i \in 1..IntOf(n) |-> v]
            /\ objs = r.w.objs
            /\ log = r.w.log
            /\ insts = r.w.insts
            /\ outs = <<<<>>>>
            /\ stopped = <<FALSE>>
            /\ hist = <<>>

InitTake == InitWith(Sources) \/ InitRepeat

TakeCycle ==
    /\ hist = <<>>
    /\ Chain(1, Call("cycle", NoneV, NoFn, <<>>, NoneV))

TakeInspect ==
    /\ Called("inspect") = {}
    /\ Chain(Len(insts), Call("inspect", NoneV, ActA, <<>>, NoneV))

\* the inspected source is consumed before take is called
TakeAhead ==
    /\ Called("inspect") # {}
    /\ Called("take") = {}
    /\ Len(log) < MaxLen
    /\ NextItem(Len(insts))

TakeCall ==
    /\ Called("inspect") # {}
    /\ Called("take") = {}
    /\ \E n \in 0..(MaxLen + 1) :
           Chain(Len(insts), Call("take", IntV(n), NoFn, <<>>, NoneV))

TakeConsume == Called("take") # {} /\ NextItem(Len(insts))

TakeCollect ==
    /\ Called("take") # {}
    /\ Called("collect") = {}
    /\ Terminal(Len(insts), Call("collect", NoneV, Fn("list", NoneV), <<>>, NoneV))

NextTake ==
    TakeCycle \/ TakeInspect \/ TakeAhead \/ TakeCall \/ TakeConsume \/ TakeCollect

SpecTake == InitTake /\ [][NextTake]_vars

--------------------------------------------------------------------------
(* Properties of take (SpecTake) *)

\* the source of take never ends: cycle() of a non-empty sequence, or
\* repeat(value) with n omitted
Endless ==
    \/ Called("cycle") # {} /\ src # <<>>
    \/ objs[1].kind = "repeat" /\ objs[1].n = -1

\* the k-th item that leaves the source
SourceAt(k) == src[((k - 1) % Len(src)) + 1]

\* how many items had left the source when operation h was called
LeftBefore(h) ==
    Cardinality({g \in 1..(h - 1) : hist[g].call.m = "next" /\ hist[g].res.kind = "ok"})

\* how many items take(n) called by operation h can give
Goal(h) ==
    LET n == IntOf(hist[h].call.n)
        remaining == Len(src) - LeftBefore(h)
    IN IF Endless \/ n < remaining THEN n ELSE remaining

\* the items collect returned, if it was called
Gathered == IF Called("collect") = {} THEN <<>> ELSE hist[CHOOSE h \in Called("collect") : TRUE].res.val.v

\* C21: consuming take(n) pulls min(n, number of remaining elements)
\* elements from its source, in order, and never one more: the items that
\* left the source since the call are those take(n) gave, at most
\* min(n, remaining) of them and exactly that many once take(n) has
\* stopped or collect has returned, which it does on an endless source
\* too; take(0) pulls nothing.
C21_TakePullsMinOfNAndRest ==
    \A h \in Called("take") :
        LET t == hist[h].res.ref
            through == Len(log) - LeftBefore(h)
            given == outs[t] \o Gathered
        IN /\ hist[h].res.kind = "ok"
           /\ through = Len(given)
           /\ through <= Goal(h)
           /\ \A i \in 1..through :
                  /\ log[LeftBefore(h) + i] = <<ActA.arg, SourceAt(LeftBefore(h) + i)>>
                  /\ given[i] = SourceAt(LeftBefore(h) + i)
           /\ (stopped[t] \/ Called("collect") # {}) => through = Goal(h)
           /\ \A g \in Called("collect") : hist[g].res.kind = "ok"

\* collect on take(n) of a cycle returned n items, more than the sequence
\* has, after an item had been consumed before the call, and a next() on
\* it then stopped
C21_Witness ==
    /\ Called("cycle") # {}
    /\ \E h \in Called("take") :
           /\ LeftBefore(h) = 1
           /\ IntOf(hist[h].call.n) > Len(src)
           /\ Len(Gathered) = IntOf(hist[h].call.n)
           /\ stopped[hist[h].res.ref]
           /\ Len(log) = 1 + IntOf(hist[h].call.n)

--------------------------------------------------------------------------
(* Take while: the root wraps a single-pass iterator; it may be consumed  *)
(* for a while, then take_while(p) or fuse(v) is called on it once, and   *)
(* from then on both the new sequence and the root are consumed, in any   *)
(* order.                                                                 *)

WhileCalls ==
    {Call("take_while", NoneV, f, <<>>, NoneV) : f \in Predicates}
    \cup {Call("fuse", NoneV, NoFn, <<>>, v) : v \in Elems \cup {Omitted}}

WhileAhead == OnlyConsumed /\ NextItem(1)

WhileCall == OnlyConsumed /\ \E c \in WhileCalls : Chain(1, c)

WhileConsume == ~OnlyConsumed /\ NextItem(Len(insts))

WhileLater == ~OnlyConsumed /\ NextItem(1)

NextWhile == WhileAhead \/ WhileCall \/ WhileConsume \/ WhileLater

SpecWhile == InitWith(Sources) /\ [][NextWhile]_vars

--------------------------------------------------------------------------
(* Properties of take_while (SpecWhile) *)

\* the predicate of the call c: p for take_while(p), and for fuse(v) the
\* test that an item differs from v, None when v is omitted
PredicateOf(c) ==
    IF c.m = "take_while" THEN c.f
    ELSE Fn("ne", IF c.val = Omitted THEN NoneV ELSE c.val)

\* the operations that called take_while or fuse
WhileCalled == Called("take_while") \cup Called("fuse")

\* the next() of operation g, on the sequence that operation h made, found
\* an element that fails the predicate
Discards(h, g) ==
    /\ g > h
    /\ hist[g].call.m = "next"
    /\ hist[g].self = hist[h].res.ref
    /\ hist[g].at < Len(src)
    /\ ~Truthy(Apply(PredicateOf(hist[h].call), src[hist[g].at + 1]))

\* C22: take_while(p) over a single-pass source gives the elements it
\* pulls as long as they pass p; the first one that fails p is pulled from
\* the source and given to nobody: take_while stops there, having moved
\* the source past it, and a consumer of the same source gets the element
\* after it next.  fuse(v) is take_while with the test x != v.
C22_TakeWhileDiscardsFirstFailing ==
    \A h \in WhileCalled :
        LET t == hist[h].res.ref
            p == PredicateOf(hist[h].call)
        IN /\ hist[h].res.kind = "ok"
           /\ After(h) = hist[h].at
           /\ \A i \in 1..Len(outs[t]) : Truthy(Apply(p, outs[t][i]))
           /\ \A g \in (h + 1)..Len(hist) :
                  LET at == hist[g].at
                      gives == Result("ok", IF at < Len(src) THEN src[at + 1] ELSE NoneV, 0)
                      stops == Result("StopIteration", NoneV, 0)
                  IN IF at = Len(src) THEN hist[g].res = stops /\ After(g) = at
                     ELSE IF Discards(h, g)
                     THEN /\ hist[g].res = stops
                          /\ After(g) = at + 1
                          /\ \A k \in Called("next") \ {g} : hist[k].at # at
                          /\ g < Len(hist) /\ at + 1 < Len(src)
                                 => hist[g + 1].res = Result("ok", src[at + 2], 0)
                     ELSE hist[g].res = gives /\ After(g) = at + 1

\* take_while gave an element and stopped at one that fails p, and the
\* root then gave the element after that one
C22_Witness ==
    \E h \in WhileCalled :
        \E g \in (h + 1)..(Len(hist) - 1) :
            /\ Discards(h, g)
            /\ Len(outs[hist[h].res.ref]) > 0
            /\ hist[g].at + 1 < Len(src)
            /\ hist[g + 1].self = 1
            /\ hist[g + 1].res = Result("ok", src[hist[g].at + 2], 0)

====
